---- MODULE Spec2Model ----
(***************************************************************************)
(* Region transfer protocol of frame/contracts/src/wasm/memory.rs          *)
(* (read_region, write_region, get_region, set_region, validate_region)    *)
(* over the SandboxMemory contract of primitives/sandbox/src/lib.rs, and   *)
(* the environment builder / sandbox instance interface of the same file.  *)
(*                                                                         *)
(* Scaling.  TLC integers are 32-bit signed, so a u32 cannot be kept at    *)
(* 2^32.  A byte holds ByteBase values (256 in the program) and a u32 is   *)
(* still U32Bytes = 4 little-endian bytes, so U32_MAX = ByteBase^4 - 1 and *)
(* every wrap-around, narrowing cast and byte layout keeps its shape.  A   *)
(* usize is 8 bytes (the std build of the pallet; on wasm32 it is 4).      *)
(* A linear memory is MemSize bytes long (pages * 64 KiB in the program).  *)
(***************************************************************************)
EXTENDS Integers, Sequences, FiniteSets, TLC

VARIABLES
    memory,     \* the linear memory: a sequence of bytes, address a at memory[a + 1]
    call,       \* the last completed call: its arguments, the memory before it, its result
    prev,       \* the call completed before `call` (operation, pointer, data, outcome)
    builder,    \* the environment definition builder: registered functions and memories
    instances,  \* the sandbox instances created so far, each with the imports it was linked to
    sandbox     \* the last completed sandbox call

vars == <<memory, call, prev, builder, instances, sandbox>>

(***************************************************************************)
(* Bounds of the model and constants of the program.                       *)
(***************************************************************************)
ByteBase == 4
MemSize == 16
U32Bytes == 4
UsizeBytes == 8

RECURSIVE Pow(_, _)
Pow(b, e) == IF e = 0 THEN 1 ELSE b * Pow(b, e - 1)

U32_MAX == Pow(ByteBase, U32Bytes) - 1
USIZE_MAX == Pow(ByteBase, UsizeBytes) - 1

\* size_of::<Region>(): three u32 fields, repr(C), no padding
RegionSize == 3 * U32Bytes

\* `x as u32` and `x as usize`: truncation to the width of the target type
AsU32(x) == x % (U32_MAX + 1)
AsUsize(x) == x % (USIZE_MAX + 1)

(***************************************************************************)
(* Region: the descriptor and its layout in linear memory.                 *)
(***************************************************************************)
Region(offset, capacity, length) ==
    [offset |-> offset, capacity |-> capacity, length |-> length]

\* a u32 as U32Bytes little-endian bytes, and back
EncodeU32(n) == [i \in 1..U32Bytes |-> (n \div Pow(ByteBase, i - 1)) % ByteBase]
DecodeU32(bs) ==
    bs[1] + ByteBase * (bs[2] + ByteBase * (bs[3] + ByteBase * bs[4]))

\* the fields in declaration order: offset, capacity, length
EncodeRegion(region) ==
    EncodeU32(region.offset) \o EncodeU32(region.capacity) \o EncodeU32(region.length)
DecodeRegion(bs) ==
    Region(DecodeU32(SubSeq(bs, 1, U32Bytes)),
           DecodeU32(SubSeq(bs, U32Bytes + 1, 2 * U32Bytes)),
           DecodeU32(SubSeq(bs, 2 * U32Bytes + 1, 3 * U32Bytes)))

NoRegion == Region(0, 0, 0)

(***************************************************************************)
(* SandboxMemory: get and set fail when the range is out of bounds, and a  *)
(* failed set writes nothing.  Each result carries the log of the memory   *)
(* accesses made (an instrumented accessor).                               *)
(***************************************************************************)
InBounds(mem, ptr, len) == ptr + len <= Len(mem)

\* get with a fault: an out-of-bounds read is zero-filled instead of refused
get_zero_filled(mem, ptr, len) ==
    [ok |-> TRUE,
     buf |-> [i \in 1..len |-> IF ptr + i <= Len(mem) THEN mem[ptr + i] ELSE 0]]

get(mem, ptr, len) ==
    IF InBounds(mem, ptr, len)
    THEN [ok |-> TRUE, buf |-> SubSeq(mem, ptr + 1, ptr + len)]
    ELSE [ok |-> FALSE, buf |-> <<>>]

set(mem, ptr, value) ==
    IF InBounds(mem, ptr, Len(value))
    THEN [ok |-> TRUE,
          memory |-> [a \in 1..Len(mem) |->
                        IF a - 1 >= ptr /\ a - 1 < ptr + Len(value)
                        THEN value[a - ptr] ELSE mem[a]]]
    ELSE [ok |-> FALSE, memory |-> mem]

\* Memory::typed_get::<Region> and Memory::typed_set: a fixed-size read/write
\* of the descriptor's bytes at ptr
typed_get(mem, ptr) ==
    LET r == get(mem, ptr, RegionSize)
    IN  IF r.ok THEN [ok |-> TRUE, region |-> DecodeRegion(r.buf)]
        ELSE [ok |-> FALSE, region |-> NoRegion]

typed_set(mem, ptr, region) == set(mem, ptr, EncodeRegion(region))

GetAccess(ptr, len) == <<"get", ptr, len>>
SetAccess(ptr, len) == <<"set", ptr, len>>

(***************************************************************************)
(* memory.rs                                                               *)
(***************************************************************************)
Outcome(ok, err, out, mem, log) ==
    [ok |-> ok, err |-> err, out |-> out, memory |-> mem, log |-> log]

get_region(mem, ptr) ==
    LET r == typed_get(mem, ptr)
    IN  IF r.ok THEN [ok |-> TRUE, err |-> "", region |-> r.region]
        ELSE [ok |-> FALSE, err |-> "cannot read region", region |-> NoRegion]

set_region(mem, ptr, region) ==
    LET r == typed_set(mem, ptr, region)
    IN  IF r.ok THEN [ok |-> TRUE, err |-> "", memory |-> r.memory]
        ELSE [ok |-> FALSE, err |-> "cannot read region", memory |-> r.memory]

\* validate_region with a fault: the range check is off by one
validate_region_off_by_one(region) ==
    IF region.offset = 0 THEN "zero region"
    ELSE IF region.length > region.capacity THEN "region length exceeds capacity"
    ELSE IF region.capacity >= U32_MAX - region.offset THEN "region out of range"
    ELSE "ok"

\* validate_region with a fault: the range check comes before the length check
validate_region_range_first(region) ==
    IF region.offset = 0 THEN "zero region"
    ELSE IF region.capacity > U32_MAX - region.offset THEN "region out of range"
    ELSE IF region.length > region.capacity THEN "region length exceeds capacity"
    ELSE "ok"

validate_region(region) ==
    IF region.offset = 0 THEN "zero region"
    ELSE IF region.length > region.capacity THEN "region length exceeds capacity"
    ELSE IF region.capacity > U32_MAX - region.offset THEN "region out of range"
    ELSE "ok"

\* read_region with a fault: the bytes are copied before max_length is checked
read_region_copy_first(mem, ptr, max_length) ==
    LET g == get_region(mem, ptr)
        region == g.region
        log1 == <<GetAccess(ptr, RegionSize)>>
    IN  IF ~g.ok THEN Outcome(FALSE, g.err, <<>>, mem, log1)
        ELSE LET len == AsUsize(region.length)
                 d == get(mem, region.offset, len)
                 log2 == Append(log1, GetAccess(region.offset, len))
             IN  IF ~d.ok
                 THEN Outcome(FALSE, "couldn't extract region", <<>>, mem, log2)
                 ELSE IF region.length > AsU32(max_length)
                 THEN Outcome(FALSE, "region too big", <<>>, mem, log2)
                 ELSE Outcome(TRUE, "", d.buf, mem, log2)

\* read_region with a fault: a region that was read is marked empty in guest memory
read_region_consuming(mem, ptr, max_length) ==
    LET g == get_region(mem, ptr)
        region == g.region
        log1 == <<GetAccess(ptr, RegionSize)>>
    IN  IF ~g.ok THEN Outcome(FALSE, g.err, <<>>, mem, log1)
        ELSE IF region.length > AsU32(max_length)
        THEN Outcome(FALSE, "region too big", <<>>, mem, log1)
        ELSE LET len == AsUsize(region.length)
                 d == get(mem, region.offset, len)
                 log2 == Append(log1, GetAccess(region.offset, len))
             IN  IF ~d.ok
                 THEN Outcome(FALSE, "couldn't extract region", <<>>, mem, log2)
                 ELSE Outcome(TRUE, "", d.buf,
                              set_region(mem, ptr, [region EXCEPT !.length = 0]).memory,
                              Append(log2, SetAccess(ptr, RegionSize)))

read_region(mem, ptr, max_length) ==
    LET g == get_region(mem, ptr)
        region == g.region
        log1 == <<GetAccess(ptr, RegionSize)>>
    IN  IF ~g.ok THEN Outcome(FALSE, g.err, <<>>, mem, log1)
        ELSE IF region.length > AsU32(max_length)
        THEN Outcome(FALSE, "region too big", <<>>, mem, log1)
        ELSE LET len == AsUsize(region.length)
                 d == get(mem, region.offset, len)
                 log2 == Append(log1, GetAccess(region.offset, len))
             IN  IF ~d.ok
                 THEN Outcome(FALSE, "couldn't extract region", <<>>, mem, log2)
                 ELSE Outcome(TRUE, "", d.buf, mem, log2)

\* write_region with a fault: the data is written before the capacity is checked
write_region_check_after(mem, ptr, data) ==
    LET g == get_region(mem, ptr)
        log1 == <<GetAccess(ptr, RegionSize)>>
        region_capacity == AsUsize(g.region.capacity)
    IN  IF ~g.ok THEN Outcome(FALSE, g.err, <<>>, mem, log1)
        ELSE LET s == set(mem, g.region.offset, data)
                 log2 == Append(log1, SetAccess(g.region.offset, Len(data)))
             IN  IF ~s.ok
                 THEN Outcome(FALSE, "couldn't extract region", <<>>, s.memory, log2)
                 ELSE IF Len(data) > region_capacity
                 THEN Outcome(FALSE, "memory region too small", <<>>, s.memory, log2)
                 ELSE LET region == [g.region EXCEPT !.length = AsU32(Len(data))]
                          w == set_region(s.memory, ptr, region)
                          log3 == Append(log2, SetAccess(ptr, RegionSize))
                      IN  IF ~w.ok THEN Outcome(FALSE, w.err, <<>>, w.memory, log3)
                          ELSE Outcome(TRUE, "", <<>>, w.memory, log3)

\* write_region with a fault: the capacity is shrunk to the bytes written
write_region_shrinks_capacity(mem, ptr, data) ==
    LET g == get_region(mem, ptr)
        log1 == <<GetAccess(ptr, RegionSize)>>
        region_capacity == AsUsize(g.region.capacity)
    IN  IF ~g.ok THEN Outcome(FALSE, g.err, <<>>, mem, log1)
        ELSE IF Len(data) > region_capacity
        THEN Outcome(FALSE, "memory region too small", <<>>, mem, log1)
        ELSE LET s == set(mem, g.region.offset, data)
                 log2 == Append(log1, SetAccess(g.region.offset, Len(data)))
             IN  IF ~s.ok
                 THEN Outcome(FALSE, "couldn't extract region", <<>>, s.memory, log2)
                 ELSE LET region == [g.region EXCEPT !.length = AsU32(Len(data)),
                                                     !.capacity = AsU32(Len(data))]
                          w == set_region(s.memory, ptr, region)
                          log3 == Append(log2, SetAccess(ptr, RegionSize))
                      IN  IF ~w.ok THEN Outcome(FALSE, w.err, <<>>, w.memory, log3)
                          ELSE Outcome(TRUE, "", <<>>, w.memory, log3)

\* write_region with a fault: the descriptor is written back before the data
write_region_descriptor_first(mem, ptr, data) ==
    LET g == get_region(mem, ptr)
        log1 == <<GetAccess(ptr, RegionSize)>>
        region_capacity == AsUsize(g.region.capacity)
    IN  IF ~g.ok THEN Outcome(FALSE, g.err, <<>>, mem, log1)
        ELSE IF Len(data) > region_capacity
        THEN Outcome(FALSE, "memory region too small", <<>>, mem, log1)
        ELSE LET region == [g.region EXCEPT !.length = AsU32(Len(data))]
                 w == set_region(mem, ptr, region)
                 log2 == Append(log1, SetAccess(ptr, RegionSize))
             IN  IF ~w.ok THEN Outcome(FALSE, w.err, <<>>, w.memory, log2)
                 ELSE LET s == set(w.memory, g.region.offset, data)
                          log3 == Append(log2, SetAccess(g.region.offset, Len(data)))
                      IN  IF ~s.ok
                          THEN Outcome(FALSE, "couldn't extract region", <<>>, s.memory, log3)
                          ELSE Outcome(TRUE, "", <<>>, s.memory, log3)

write_region(mem, ptr, data) ==
    LET g == get_region(mem, ptr)
        log1 == <<GetAccess(ptr, RegionSize)>>
        region_capacity == AsUsize(g.region.capacity)
    IN  IF ~g.ok THEN Outcome(FALSE, g.err, <<>>, mem, log1)
        ELSE IF Len(data) > region_capacity
        THEN Outcome(FALSE, "memory region too small", <<>>, mem, log1)
        ELSE LET s == set(mem, g.region.offset, data)
                 log2 == Append(log1, SetAccess(g.region.offset, Len(data)))
             IN  IF ~s.ok
                 THEN Outcome(FALSE, "couldn't extract region", <<>>, s.memory, log2)
                 ELSE LET region == [g.region EXCEPT !.length = AsU32(Len(data))]
                          w == set_region(s.memory, ptr, region)
                          log3 == Append(log2, SetAccess(ptr, RegionSize))
                      IN  IF ~w.ok THEN Outcome(FALSE, w.err, <<>>, w.memory, log3)
                          ELSE Outcome(TRUE, "", <<>>, w.memory, log3)

(***************************************************************************)
(* lib.rs: the environment builder and the sandbox instance.  A module's   *)
(* bytecode is a record of what the interface lets a caller observe: is it *)
(* valid, which (module, field) imports it needs, does its start function  *)
(* trap, which functions it exports.  `uses` counts the instantiations a   *)
(* builder was passed to.                                                  *)
(***************************************************************************)
MaxInstances == 2

SandboxEnvironmentBuilder_new == [funcs |-> {}, memories |-> {}, uses |-> 0]

add_host_func(b, module, field, f) ==
    [b EXCEPT !.funcs = @ \cup {<<module, field, f>>}]

add_memory(b, module, field, mem) ==
    [b EXCEPT !.memories = @ \cup {<<module, field, mem>>}]

Registered(b) ==
    {<<e[1], e[2]>> : e \in b.funcs} \cup {<<e[1], e[2]>> : e \in b.memories}

\* SandboxInstance_new with a fault: instantiation takes the registrations out of the builder
SandboxInstance_new_consuming(code, env_def_builder) ==
    LET result == IF ~code.valid \/ ~(code.imports \subseteq Registered(env_def_builder))
                  THEN "Module"
                  ELSE IF code.start_traps THEN "Execution" ELSE "Ok"
    IN  [result |-> result,
         instance |-> [status |-> "Instantiated",
                       exports |-> code.exports,
                       funcs |-> env_def_builder.funcs,
                       memories |-> env_def_builder.memories],
         builder |-> [funcs |-> {}, memories |-> {}, uses |-> env_def_builder.uses + 1]]

\* SandboxInstance::new(code, &env_def_builder, state): Err(Error::Module) when the
\* module cannot be instantiated with the environment, Err(Error::Execution) when
\* its start function traps; the builder is borrowed, not moved
SandboxInstance_new(code, env_def_builder) ==
    LET result == IF ~code.valid \/ ~(code.imports \subseteq Registered(env_def_builder))
                  THEN "Module"
                  ELSE IF code.start_traps THEN "Execution" ELSE "Ok"
    IN  [result |-> result,
         instance |-> [status |-> "Instantiated",
                       exports |-> code.exports,
                       funcs |-> env_def_builder.funcs,
                       memories |-> env_def_builder.memories],
         builder |-> [env_def_builder EXCEPT !.uses = @ + 1]]

ModuleNames == {"env"}
FieldNames == {"add", "memory"}
HostFuncs == {"host_add"}
MemoryHandles == {"memory0"}
NoCode == [valid |-> FALSE, imports |-> {}, start_traps |-> FALSE, exports |-> {}]
Codes ==
    {NoCode,
     [valid |-> TRUE, imports |-> {}, start_traps |-> FALSE,
      exports |-> {"double", "unreachable"}],
     [valid |-> TRUE, imports |-> {}, start_traps |-> TRUE,
      exports |-> {"double", "unreachable"}],
     [valid |-> TRUE, imports |-> {<<"env", "add">>, <<"env", "memory">>},
      start_traps |-> FALSE,
      exports |-> {"double", "unreachable", "call_add", "fill"}]}

SandboxCall(op, module, field, code, pre, result) ==
    [op |-> op, module |-> module, field |-> field, code |-> code,
     pre |-> pre, result |-> result,
     instance |-> 0, name |-> "", args |-> <<>>, pre_status |-> "",
     value |-> 0, trapped |-> FALSE, cause |-> "", host |-> "", log |-> <<>>]
NoSandboxCall ==
    SandboxCall("none", "", "", NoCode, SandboxEnvironmentBuilder_new, "")
NoBuilder == SandboxEnvironmentBuilder_new

(***************************************************************************)
(* lib.rs: Error, HostError and SandboxInstance::invoke.  An exported      *)
(* function is known by what a caller can observe of it: its arity, and    *)
(* whether it computes, traps, stores to the shared memory or calls the    *)
(* imported host function (env, add).  What the host function returns is   *)
(* the host's choice: a value, a HostError of its own, or a sandbox Error  *)
(* converted with `?`.                                                     *)
(***************************************************************************)
Errors == {"Module", "OutOfBounds", "Execution"}

\* From<Error> for HostError, with a fault: the HostError carries the Error's kind
From_Error_keeping_kind(e) == e

\* impl From<Error> for HostError: every Error becomes the unit HostError
From_Error(e) == "HostError"

HostOutcomes == {"Ok", "HostError"} \cup Errors

\* what a host function returns: Ok(ReturnValue) or Err(HostError)
HostResult(outcome) ==
    IF outcome = "Ok" THEN "Ok"
    ELSE IF outcome = "HostError" THEN "HostError"
    ELSE From_Error(outcome)

Arity(name) ==
    CASE name = "double" -> 1
      [] name = "call_add" -> 2
      [] OTHER -> 0

InvokeResult(result, value, trapped, host, status, log, mem) ==
    [result |-> result, value |-> value, trapped |-> trapped, host |-> host,
     status |-> status, log |-> log, memory |-> mem]

\* invoke with a fault: an instance whose call trapped is put in a terminal state
invoke_trap_is_terminal(instance, name, args, outcome, mem) ==
    IF name \notin instance.exports
    THEN InvokeResult("Execution", 0, FALSE, "", instance.status, <<>>, mem)
    ELSE IF Len(args) # Arity(name) \/ name = "unreachable"
    THEN InvokeResult("Execution", 0, TRUE, "", "Trapped", <<>>, mem)
    ELSE IF name = "double"
    THEN InvokeResult("Ok", 2 * args[1], FALSE, "", instance.status, <<>>, mem)
    ELSE IF name = "fill"
    THEN InvokeResult("Ok", 0, FALSE, "", instance.status,
                      <<SetAccess(0, 1)>>, set(mem, 0, <<1>>).memory)
    ELSE LET h == HostResult(outcome)
         IN  IF h = "Ok"
             THEN InvokeResult("Ok", args[1] + args[2], FALSE, h, instance.status,
                               <<<<"host", "env", "add">>>>, mem)
             ELSE InvokeResult("Execution", 0, TRUE, h, "Trapped",
                               <<<<"host", "env", "add">>>>, mem)

\* invoke with a fault: a name that is not exported runs the first export
invoke_missing_runs_default(instance, name, args, outcome, mem) ==
    IF name \notin instance.exports
    THEN IF "fill" \in instance.exports
         THEN InvokeResult("Ok", 0, FALSE, "", instance.status,
                           <<SetAccess(0, 1)>>, set(mem, 0, <<1>>).memory)
         ELSE InvokeResult("Module", 0, FALSE, "", instance.status, <<>>, mem)
    ELSE IF Len(args) # Arity(name) \/ name = "unreachable"
    THEN InvokeResult("Execution", 0, TRUE, "", instance.status, <<>>, mem)
    ELSE IF name = "double"
    THEN InvokeResult("Ok", 2 * args[1], FALSE, "", instance.status, <<>>, mem)
    ELSE IF name = "fill"
    THEN InvokeResult("Ok", 0, FALSE, "", instance.status,
                      <<SetAccess(0, 1)>>, set(mem, 0, <<1>>).memory)
    ELSE LET h == HostResult(outcome)
         IN  IF h = "Ok"
             THEN InvokeResult("Ok", args[1] + args[2], FALSE, h, instance.status,
                               <<<<"host", "env", "add">>>>, mem)
             ELSE InvokeResult("Execution", 0, TRUE, h, instance.status,
                               <<<<"host", "env", "add">>>>, mem)

\* SandboxInstance::invoke(&mut self, name, args, state): Err(Error::Execution) when
\* the module has no exported function `name`, when the arguments do not match the
\* signature (a trap), when a trap occurs at execution time; a host function that
\* returns Err(HostError) traps the guest call.  The instance stays as it was.
invoke(instance, name, args, outcome, mem) ==
    IF name \notin instance.exports
    THEN InvokeResult("Execution", 0, FALSE, "", instance.status, <<>>, mem)
    ELSE IF Len(args) # Arity(name) \/ name = "unreachable"
    THEN InvokeResult("Execution", 0, TRUE, "", instance.status, <<>>, mem)
    ELSE IF name = "double"
    THEN InvokeResult("Ok", 2 * args[1], FALSE, "", instance.status, <<>>, mem)
    ELSE IF name = "fill"
    THEN InvokeResult("Ok", 0, FALSE, "", instance.status,
                      <<SetAccess(0, 1)>>, set(mem, 0, <<1>>).memory)
    ELSE LET h == HostResult(outcome)
         IN  IF h = "Ok"
             THEN InvokeResult("Ok", args[1] + args[2], FALSE, h, instance.status,
                               <<<<"host", "env", "add">>>>, mem)
             ELSE InvokeResult("Execution", 0, TRUE, h, instance.status,
                               <<<<"host", "env", "add">>>>, mem)

ExportNames == {"double", "unreachable", "call_add", "fill", "missing"}
ArgLists == {<<>>, <<21>>, <<3, 4>>}

\* an environment with the host function and the memory a module may import
BuiltEnvironment ==
    add_memory(add_host_func(SandboxEnvironmentBuilder_new, "env", "add", "host_add"),
               "env", "memory", "memory0")

(***************************************************************************)
(* Inputs.  A guest prepares its memory before it calls the host: the      *)
(* bytes are zero (fresh pages) or guest data, with a descriptor stored at *)
(* DescPtrs.  The descriptor's fields are guest-chosen, so every           *)
(* combination of the sample values occurs, valid or not.                  *)
(***************************************************************************)
Zeroed == [a \in 1..MemSize |-> 0]
GuestData == [a \in 1..MemSize |-> a % ByteBase]
Backgrounds == {GuestData}

DescPtrs == {0, MemSize - RegionSize}
Offsets == {0, 1, MemSize - 2, U32_MAX}
Capacities == {0, 2, U32_MAX - 1, U32_MAX}
Lengths == {0, 1, 3, U32_MAX}
GuestRegions == {Region(o, c, l) : o \in Offsets, c \in Capacities, l \in Lengths}
GuestMemories ==
    {set(bg, p, EncodeRegion(r)).memory : bg \in Backgrounds, p \in DescPtrs, r \in GuestRegions}

Ptrs == DescPtrs \cup {U32_MAX}
MaxLengths == {0, 2, U32_MAX, U32_MAX + 1, U32_MAX + 3}
Datas == {<<>>, <<2>>, <<3, 1, 2>>}

\* the values validate_region is applied to: the edges of the u32 range
U32Samples == {0, 1, 2, 3, 23, U32_MAX - 23, U32_MAX - 2, U32_MAX - 1, U32_MAX}
SampleRegions == {Region(o, c, l) : o \in U32Samples, c \in U32Samples, l \in U32Samples}

(***************************************************************************)
(* The record of a call.                                                   *)
(***************************************************************************)
Call(op, ptr, max_length, data, region, pre, r) ==
    [op |-> op, ptr |-> ptr, max_length |-> max_length, data |-> data,
     region |-> region, pre |-> pre,
     ok |-> r.ok, err |-> r.err, out |-> r.out, log |-> r.log]

NoOutcome == Outcome(FALSE, "", <<>>, <<>>, <<>>)
NoCall == Call("none", 0, 0, <<>>, NoRegion, <<>>, NoOutcome)
Summary(c) == [op |-> c.op, ptr |-> c.ptr, data |-> c.data, ok |-> c.ok]


(***************************************************************************)
(* Region transfer: the host reads and writes regions of a guest memory.   *)
(***************************************************************************)
Init ==
    /\ memory \in GuestMemories
    /\ call = NoCall
    /\ prev = Summary(NoCall)
    /\ builder = NoBuilder
    /\ instances = <<>>
    /\ sandbox = NoSandboxCall

ReadRegion(ptr, max_length) ==
    LET r == read_region(memory, ptr, max_length)
    IN  /\ memory' = r.memory
        /\ call' = Call("read_region", ptr, max_length, <<>>, NoRegion, memory, r)
        /\ prev' = Summary(call)
        /\ UNCHANGED <<builder, instances, sandbox>>

WriteRegion(ptr, data) ==
    LET r == write_region(memory, ptr, data)
    IN  /\ memory' = r.memory
        /\ call' = Call("write_region", ptr, 0, data, NoRegion, memory, r)
        /\ prev' = Summary(call)
        /\ UNCHANGED <<builder, instances, sandbox>>

Next ==
    \/ \E ptr \in Ptrs, max_length \in MaxLengths : ReadRegion(ptr, max_length)
    \/ \E ptr \in Ptrs, data \in Datas : WriteRegion(ptr, data)

Spec == Init /\ [][Next]_vars

(***************************************************************************)
(* validate_region applied to a descriptor.                                *)
(***************************************************************************)
InitValidate ==
    /\ memory = Zeroed
    /\ call \in {Call("input", 0, 0, <<>>, r, <<>>, NoOutcome) : r \in SampleRegions}
    /\ prev = Summary(NoCall)
    /\ builder = NoBuilder
    /\ instances = <<>>
    /\ sandbox = NoSandboxCall

ValidateRegion ==
    /\ call.op = "input"
    /\ LET e == validate_region(call.region)
       IN  call' = Call("validate_region", 0, 0, <<>>, call.region, <<>>,
                        Outcome(e = "ok", IF e = "ok" THEN "" ELSE e, <<>>, <<>>, <<>>))
    /\ prev' = Summary(call)
    /\ UNCHANGED <<memory, builder, instances, sandbox>>

NextValidate == ValidateRegion

SpecValidate == InitValidate /\ [][NextValidate]_vars

(***************************************************************************)
(* The sandbox: an environment is built and modules are instantiated       *)
(* against it.                                                             *)
(***************************************************************************)
InitSandbox ==
    /\ memory = Zeroed
    /\ call = NoCall
    /\ prev = Summary(NoCall)
    /\ builder = SandboxEnvironmentBuilder_new
    /\ instances = <<>>
    /\ sandbox = NoSandboxCall

NewBuilder ==
    /\ builder' = SandboxEnvironmentBuilder_new
    /\ sandbox' = SandboxCall("SandboxEnvironmentBuilder::new", "", "", NoCode, builder, "Ok")
    /\ UNCHANGED <<memory, call, prev, instances>>

AddHostFunc(module, field, f) ==
    /\ builder' = add_host_func(builder, module, field, f)
    /\ sandbox' = SandboxCall("add_host_func", module, field, NoCode, builder, "Ok")
    /\ UNCHANGED <<memory, call, prev, instances>>

AddMemory(module, field, mem) ==
    /\ builder' = add_memory(builder, module, field, mem)
    /\ sandbox' = SandboxCall("add_memory", module, field, NoCode, builder, "Ok")
    /\ UNCHANGED <<memory, call, prev, instances>>

Instantiate(code) ==
    /\ builder.uses < MaxInstances
    /\ Len(instances) < MaxInstances
    /\ LET r == SandboxInstance_new(code, builder)
       IN  /\ builder' = r.builder
           /\ instances' = IF r.result = "Ok" THEN Append(instances, r.instance)
                           ELSE instances
           /\ sandbox' = SandboxCall("SandboxInstance::new", "", "", code, builder, r.result)
    /\ UNCHANGED <<memory, call, prev>>

NextSandbox ==
    \/ NewBuilder
    \/ \E m \in ModuleNames, fl \in FieldNames, f \in HostFuncs : AddHostFunc(m, fl, f)
    \/ \E m \in ModuleNames, fl \in FieldNames, mem \in MemoryHandles : AddMemory(m, fl, mem)
    \/ \E code \in Codes : Instantiate(code)

SpecSandbox == InitSandbox /\ [][NextSandbox]_vars

(***************************************************************************)
(* The life of sandbox instances: instantiated against a built             *)
(* environment, invoked, dropped.                                          *)
(***************************************************************************)
InitInstance ==
    /\ memory = Zeroed
    /\ call = NoCall
    /\ prev = Summary(NoCall)
    /\ builder \in {SandboxEnvironmentBuilder_new, BuiltEnvironment}
    /\ instances = <<>>
    /\ sandbox = NoSandboxCall

Invoke(i, name, args, outcome) ==
    /\ i \in 1..Len(instances)
    /\ instances[i].status = "Instantiated"
    /\ LET r == invoke(instances[i], name, args, outcome, memory)
       IN  /\ instances' = [instances EXCEPT ![i].status = r.status]
           /\ memory' = r.memory
           /\ sandbox' = [SandboxCall("invoke", "", "", NoCode, builder, r.result)
                            EXCEPT !.instance = i, !.name = name, !.args = args,
                                   !.pre_status = instances[i].status,
                                   !.value = r.value, !.trapped = r.trapped,
                                   !.cause = IF r.host = "" THEN "" ELSE outcome,
                                   !.host = r.host, !.log = r.log]
    /\ UNCHANGED <<call, prev, builder>>

Drop(i) ==
    /\ i \in 1..Len(instances)
    /\ instances[i].status = "Instantiated"
    /\ instances' = [instances EXCEPT ![i].status = "Dropped"]
    /\ sandbox' = [SandboxCall("drop", "", "", NoCode, builder, "Ok")
                     EXCEPT !.instance = i, !.pre_status = instances[i].status]
    /\ UNCHANGED <<memory, call, prev, builder>>

NextInstance ==
    \/ \E code \in Codes : Instantiate(code)
    \/ \E i \in 1..MaxInstances, name \in ExportNames, args \in ArgLists,
          outcome \in HostOutcomes : Invoke(i, name, args, outcome)
    \/ \E i \in 1..MaxInstances : Drop(i)

SpecInstance == InitInstance /\ [][NextInstance]_vars

(***************************************************************************)
(* Properties.                                                             *)
(***************************************************************************)
\* the u32 stored at address a of mem, and the descriptor stored at ptr
U32At(mem, a) ==
    mem[a + 1] + ByteBase * mem[a + 2] + ByteBase * ByteBase * mem[a + 3]
        + ByteBase * ByteBase * ByteBase * mem[a + 4]
Readable(mem, ptr) == ptr + RegionSize <= Len(mem)
Stored(mem, ptr) ==
    Region(U32At(mem, ptr), U32At(mem, ptr + U32Bytes), U32At(mem, ptr + 2 * U32Bytes))

\* the three invariants of a descriptor
Valid(r) ==
    /\ r.offset # 0
    /\ r.length <= r.capacity
    /\ r.offset + r.capacity <= U32_MAX

DescriptorReadOnly(c) == c.log = <<GetAccess(c.ptr, RegionSize)>>

\* C1: validate_region accepts a descriptor exactly when offset # 0, length <=
\* capacity and offset + capacity does not exceed u32::MAX; it rejects every
\* descriptor with offset 0 and accepts (u32::MAX, 0, 0) and (1, u32::MAX - 1, 0).
Thm_C1_ValidateAcceptsIffValid ==
    call.op = "validate_region" =>
        /\ call.ok <=> Valid(call.region)
        /\ call.region.offset = 0 => ~call.ok
        /\ call.region.offset + call.region.capacity > U32_MAX => ~call.ok
        /\ call.region = Region(U32_MAX, 0, 0) => call.ok
        /\ call.region = Region(1, U32_MAX - 1, 0) => call.ok

Wit_C1_AcceptsRegionUpToTop ==
    /\ call.op = "validate_region"
    /\ call.region = Region(1, U32_MAX - 1, 0)
    /\ call.ok

\* C2: read_region of a readable descriptor that violates an invariant returns
\* an error and makes no memory access besides the descriptor read.
CE_C2_ReadRejectsInvalidDescriptor ==
    /\ call.op = "read_region"
    /\ Readable(call.pre, call.ptr)
    /\ ~Valid(Stored(call.pre, call.ptr))
    => ~call.ok /\ DescriptorReadOnly(call)

\* C3: write_region of a readable descriptor that violates an invariant returns
\* an error and leaves guest memory as it was.
CE_C3_WriteRejectsInvalidDescriptor ==
    /\ call.op = "write_region"
    /\ Readable(call.pre, call.ptr)
    /\ ~Valid(Stored(call.pre, call.ptr))
    => ~call.ok /\ memory = call.pre

\* C4: a read_region that immediately follows a successful write_region of B at
\* the same ptr, with max_length >= len(B), succeeds and returns exactly B.
CE_C4_RoundTrip ==
    /\ call.op = "read_region"
    /\ prev.op = "write_region"
    /\ prev.ok
    /\ prev.ptr = call.ptr
    /\ call.max_length >= Len(prev.data)
    => call.ok /\ call.out = prev.data

\* C5: read_region with max_length < region.length fails with "region too big"
\* and its only memory access is the descriptor read at ptr, also when
\* region.offset + region.length is out of the memory's bounds.
Thm_C5_TooBigBeforeAnyCopy ==
    /\ call.op = "read_region"
    /\ Readable(call.pre, call.ptr)
    /\ call.max_length < Stored(call.pre, call.ptr).length
    => /\ ~call.ok
       /\ call.err = "region too big"
       /\ DescriptorReadOnly(call)

Wit_C5_TooBigAndOutOfBounds ==
    /\ call.op = "read_region"
    /\ Readable(call.pre, call.ptr)
    /\ call.max_length < Stored(call.pre, call.ptr).length
    /\ Stored(call.pre, call.ptr).offset + Stored(call.pre, call.ptr).length > Len(call.pre)
    /\ call.err = "region too big"

\* C6: write_region with len(data) > region.capacity fails with "memory region
\* too small", writes no data byte and does not rewrite the descriptor: the
\* length field, like every byte of guest memory, keeps its value.
Thm_C6_TooSmallLeavesMemory ==
    /\ call.op = "write_region"
    /\ Readable(call.pre, call.ptr)
    /\ Len(call.data) > Stored(call.pre, call.ptr).capacity
    => /\ ~call.ok
       /\ call.err = "memory region too small"
       /\ Stored(memory, call.ptr).length = Stored(call.pre, call.ptr).length
       /\ memory = call.pre
       /\ DescriptorReadOnly(call)

Wit_C6_TooSmall ==
    /\ call.op = "write_region"
    /\ Readable(call.pre, call.ptr)
    /\ Len(call.data) > Stored(call.pre, call.ptr).capacity
    /\ Stored(call.pre, call.ptr).offset + Len(call.data) <= Len(call.pre)
    /\ Stored(call.pre, call.ptr).length # Len(call.data)
    /\ call.err = "memory region too small"

\* C7: read_region never mutates guest memory, whether it succeeds or fails.
Thm_C7_ReadLeavesMemory ==
    call.op = "read_region" => memory = call.pre

Wit_C7_ReadSucceeded ==
    /\ call.op = "read_region"
    /\ call.ok
    /\ Len(call.out) > 0

\* C8: after a successful write_region the 12 bytes at ptr hold, in the order
\* offset, capacity, length, the offset and capacity stored there before the
\* call and length = len(data); every byte outside [offset, offset + len(data))
\* and outside [ptr, ptr + 12) is unchanged.
Thm_C8_WriteUpdatesOnlyLength ==
    call.op = "write_region" /\ call.ok =>
        LET old == Stored(call.pre, call.ptr)
        IN  /\ U32At(memory, call.ptr) = old.offset
            /\ U32At(memory, call.ptr + U32Bytes) = old.capacity
            /\ U32At(memory, call.ptr + 2 * U32Bytes) = Len(call.data)
            /\ Len(memory) = Len(call.pre)
            /\ \A a \in 0..(Len(memory) - 1) :
                   \/ a >= old.offset /\ a < old.offset + Len(call.data)
                   \/ a >= call.ptr /\ a < call.ptr + RegionSize
                   \/ memory[a + 1] = call.pre[a + 1]

Wit_C8_WriteSucceeded ==
    /\ call.op = "write_region"
    /\ call.ok
    /\ Len(call.data) > 0
    /\ Stored(call.pre, call.ptr).length # Len(call.data)
    /\ Stored(call.pre, call.ptr).capacity # Len(call.data)

\* C9: a successful read_region returns exactly region.length bytes, the
\* memory contents at [offset, offset + length); when that range exceeds the
\* memory's size read_region returns an error, never a shortened buffer.
Thm_C9_ReadExactOrError ==
    call.op = "read_region" /\ Readable(call.pre, call.ptr) =>
        LET r == Stored(call.pre, call.ptr)
        IN  /\ r.offset + r.length > Len(call.pre) => ~call.ok /\ call.out = <<>>
            /\ call.ok =>
                /\ Len(call.out) = r.length
                /\ \A i \in 1..Len(call.out) : call.out[i] = call.pre[r.offset + i]

Wit_C9_OutOfBoundsRead ==
    /\ call.op = "read_region"
    /\ Readable(call.pre, call.ptr)
    /\ Stored(call.pre, call.ptr).length <= call.max_length
    /\ Stored(call.pre, call.ptr).offset < Len(call.pre)
    /\ Stored(call.pre, call.ptr).offset + Stored(call.pre, call.ptr).length > Len(call.pre)
    /\ call.err = "couldn't extract region"

Thm_C14_WriteAllOrNothing ==
    call.op = "write_region" /\ ~call.ok =>
        /\ memory = call.pre
        /\ call.err \in {"cannot read region", "memory region too small",
                         "couldn't extract region"}

Wit_C14_DataRangeOutOfBounds ==
    /\ call.op = "write_region"
    /\ ~call.ok
    /\ call.err = "couldn't extract region"
    /\ Len(call.data) > 0
    /\ Stored(call.pre, call.ptr).length # Len(call.data)
    /\ Stored(call.pre, call.ptr).offset < Len(call.pre)

\* C15: read_region fails with "region too big" exactly when region.length >
\* max_length, for every max_length of the usize range, also those >= 2^32.
CE_C15_TooBigIffLengthExceedsMax ==
    call.op = "read_region" /\ Readable(call.pre, call.ptr) =>
        (call.err = "region too big"
            <=> Stored(call.pre, call.ptr).length > call.max_length)

\* C16: validate_region reports the first violated invariant in the order
\* offset # 0, length <= capacity, capacity <= u32::MAX - offset: offset = 0
\* yields the zero-offset error whatever the other fields, and offset # 0 with
\* length > capacity yields the length error also when the capacity is out of
\* range; it changes nothing.
Thm_C16_ValidateReportsFirstViolation ==
    call.op = "validate_region" =>
        LET r == call.region
        IN  /\ r.offset = 0 => call.err = "zero region"
            /\ r.offset # 0 /\ r.length > r.capacity =>
                   call.err = "region length exceeds capacity"
            /\ r.offset # 0 /\ r.length <= r.capacity /\ r.capacity > U32_MAX - r.offset =>
                   call.err = "region out of range"
            /\ memory = Zeroed
            /\ prev.op = "input"

Wit_C16_LengthErrorBeforeRangeError ==
    /\ call.op = "validate_region"
    /\ call.region.offset # 0
    /\ call.region.length > call.region.capacity
    /\ call.region.capacity > U32_MAX - call.region.offset
    /\ call.err = "region length exceeds capacity"

\* C11: the instance lifecycle has no terminal Trapped state: an invoke that
\* ends in a trap returns Error::Execution and leaves the instance
\* Instantiated, from which a further invoke is permitted until the instance
\* is dropped; invoke is not possible before a successful instantiation or
\* after the drop.
Thm_C11_NoTrappedState ==
    /\ \A i \in 1..Len(instances) : instances[i].status \in {"Instantiated", "Dropped"}
    /\ sandbox.op = "invoke" =>
           /\ sandbox.pre_status = "Instantiated"
           /\ instances[sandbox.instance].status = "Instantiated"
           /\ sandbox.trapped => sandbox.result = "Execution"
           /\ \A name \in ExportNames, args \in ArgLists :
                  ENABLED Invoke(sandbox.instance, name, args, "Ok")
    /\ \A i \in 1..MaxInstances :
           (i > Len(instances) \/ instances[i].status = "Dropped") =>
               \A name \in ExportNames, args \in ArgLists, outcome \in HostOutcomes :
                   ~ENABLED Invoke(i, name, args, outcome)

Wit_C11_InvokeAfterTrap ==
    /\ sandbox.op = "invoke"
    /\ sandbox.trapped
    /\ sandbox.result = "Execution"
    /\ instances[sandbox.instance].status = "Instantiated"
    /\ ENABLED Invoke(sandbox.instance, "double", <<21>>, "Ok")
    /\ \E i \in 1..Len(instances) : instances[i].status = "Dropped"

\* C12: invoke with a name that is not an exported function returns
\* Error::Execution (not Module, not OutOfBounds) and makes no memory access
\* and no host-function call.
Thm_C12_MissingExportIsExecution ==
    /\ sandbox.op = "invoke"
    /\ sandbox.name \notin instances[sandbox.instance].exports
    => /\ sandbox.result = "Execution"
       /\ sandbox.log = <<>>
       /\ sandbox.host = ""

Wit_C12_MissingExport ==
    /\ sandbox.op = "invoke"
    /\ sandbox.name = "missing"
    /\ {"fill", "call_add"} \subseteq instances[sandbox.instance].exports
    /\ sandbox.result = "Execution"

\* C13: when a host function called during invoke returns a HostError, its own
\* or one converted from a sandbox Error (Module, OutOfBounds, Execution), the
\* guest call is aborted and invoke returns Error::Execution: the original kind
\* is not surfaced and no success value is returned.
Thm_C13_HostErrorIsExecution ==
    sandbox.op = "invoke" /\ sandbox.cause \in Errors \cup {"HostError"} =>
        /\ sandbox.host = "HostError"
        /\ sandbox.result = "Execution"
        /\ sandbox.trapped
        /\ sandbox.value = 0

Wit_C13_ConvertedOutOfBounds ==
    /\ sandbox.op = "invoke"
    /\ sandbox.name = "call_add"
    /\ sandbox.cause = "OutOfBounds"
    /\ sandbox.log = <<<<"host", "env", "add">>>>
    /\ sandbox.result = "Execution"

====
